---- MODULE Spec2Model ----
(***************************************************************************)
(* Serialization core of crates/sats/src/ser/impls.rs.                     *)
(*                                                                         *)
(* Every `serialize` implementation of the file is a kind of frame on an   *)
(* explicit call stack.  One step is one match arm, one Protocol call on   *)
(* the encoder, or one `?`.  The encoder is the environment: every         *)
(* Protocol call either succeeds or returns one of the errors of Errors;   *)
(* an encoder method that is handed a value (serialize_element,            *)
(* serialize_entry, serialize_variant) serializes that value once and      *)
(* returns what that nested call returned.                                 *)
(***************************************************************************)
EXTENDS Integers, Sequences, FiniteSets, TLC

VARIABLES typespace, calls, cur, stack, log, builders, refs, ret, results

vars == <<typespace, calls, cur, stack, log, builders, refs, ret, results>>

-----------------------------------------------------------------------------
(* Bounds of the model.                                                    *)

MaxPayload == 1
MaxLen == 2
MaxChain == 3
RefCap == 6

-----------------------------------------------------------------------------
(* Value model and type model.                                             *)

ScalarKinds ==
  {"Bool", "I8", "U8", "I16", "U16", "I32", "U32", "I64", "U64",
   "I128", "U128", "F32", "F64", "String"}

BuiltinKinds == ScalarKinds \cup {"Array", "Map"}

NoName == "<none>"
NoVal == [k |-> "None"]
NoType == [k |-> "None"]

Scalar(kind, p) == [k |-> kind, v |-> p]
SumV(tag, value) == [k |-> "Sum", tag |-> tag, value |-> value]
ProductV(elements) == [k |-> "Product", elements |-> elements]
ArrayV(ek, elems) == [k |-> "Array", ek |-> ek, elems |-> elems]
MapV(entries) == [k |-> "Map", entries |-> entries]
UnitV == [k |-> "Unit"]

ScalarT(kind) == [k |-> kind]
Elem(name, ty) == [name |-> name, algebraic_type |-> ty]
SumT(variants) == [k |-> "Sum", variants |-> variants]
ProductT(elements) == [k |-> "Product", elements |-> elements]
ArrayT(elem_ty) == [k |-> "Array", elem_ty |-> elem_ty]
MapT(key_ty, ty) == [k |-> "Map", key_ty |-> key_ty, ty |-> ty]
RefT(r) == [k |-> "Ref", r |-> r]

\* The arm of AlgebraicValue / AlgebraicType a kind belongs to.
Class(k) ==
  IF k \in BuiltinKinds THEN "Builtin" ELSE k

\* The scalar method of Serializer for each scalar kind.
Method(kind) ==
  CASE kind = "Bool" -> "serialize_bool"
    [] kind = "I8" -> "serialize_i8"
    [] kind = "U8" -> "serialize_u8"
    [] kind = "I16" -> "serialize_i16"
    [] kind = "U16" -> "serialize_u16"
    [] kind = "I32" -> "serialize_i32"
    [] kind = "U32" -> "serialize_u32"
    [] kind = "I64" -> "serialize_i64"
    [] kind = "U64" -> "serialize_u64"
    [] kind = "I128" -> "serialize_i128"
    [] kind = "U128" -> "serialize_u128"
    [] kind = "F32" -> "serialize_f32"
    [] kind = "F64" -> "serialize_f64"
    [] kind = "String" -> "serialize_str"

\* Position of a scalar kind among the variants of BuiltinValue.
KindRank(kind) ==
  CASE kind = "Bool" -> 0
    [] kind = "I8" -> 1
    [] kind = "U8" -> 2
    [] kind = "I16" -> 3
    [] kind = "U16" -> 4
    [] kind = "I32" -> 5
    [] kind = "U32" -> 6
    [] kind = "I64" -> 7
    [] kind = "U64" -> 8
    [] kind = "I128" -> 9
    [] kind = "U128" -> 10
    [] kind = "F32" -> 11
    [] kind = "F64" -> 12
    [] kind = "String" -> 13

\* The structural order of map keys (scalar keys).
KeyLess(a, b) ==
  \/ KindRank(a.k) < KindRank(b.k)
  \/ a.k = b.k /\ a.v < b.v

\* BTreeMap::insert on the key-ordered entry list.
RECURSIVE BTreeInsert(_, _, _)
BTreeInsert(entries, key, val) ==
  IF entries = <<>> THEN <<[key |-> key, val |-> val]>>
  ELSE IF Head(entries).key = key THEN <<[key |-> key, val |-> val]>> \o Tail(entries)
  ELSE IF KeyLess(key, Head(entries).key) THEN <<[key |-> key, val |-> val]>> \o entries
  ELSE <<Head(entries)>> \o BTreeInsert(Tail(entries), key, val)

\* The map a caller gets by inserting the pairs of ins in that order.
RECURSIVE FromInsertions(_)
FromInsertions(ins) ==
  IF ins = <<>> THEN <<>>
  ELSE LET n == Len(ins)
       IN BTreeInsert(FromInsertions(SubSeq(ins, 1, n - 1)), ins[n].key, ins[n].val)

-----------------------------------------------------------------------------
(* The encoder (Protocol) side.                                            *)

Errors == {"E1", "E2"}
EncoderResults == {"Ok"} \cup Errors

\* One Protocol call as the encoder receives it.
Call(op, b, n, name, val, ty, res) ==
  [op |-> op, b |-> b, n |-> n, name |-> name, val |-> val, ty |-> ty, res |-> res]

Builder(kind, len) ==
  [kind |-> kind, len |-> len, n |-> 0, ended |-> 0, late |-> 0]

-----------------------------------------------------------------------------
(* The call stack.                                                         *)

Frame(fn, val, ty) ==
  [fn |-> fn, val |-> val, ty |-> ty, pc |-> "start", i |-> 0, b |-> 0]

Top == stack[Len(stack)]
Rest == SubSeq(stack, 1, Len(stack) - 1)
Running == stack # <<>>

Min(a, b) == IF a < b THEN a ELSE b

-----------------------------------------------------------------------------
(* Steps shared by the implementations.                                    *)

\* panic!, assert_eq! and an out-of-range index: the call unwinds.
Panic ==
  /\ stack' = <<>>
  /\ ret' = "Panic"
  /\ UNCHANGED <<log, builders, refs>>

\* A tail expression `x.serialize(ser)`: the callee takes the caller's place.
Forward(frame) ==
  /\ stack' = Rest \o <<frame>>
  /\ UNCHANGED <<log, builders, refs, ret>>

\* A scalar Protocol call as the tail expression of a serialize.
ScalarCall(val) ==
  \E r \in EncoderResults :
    /\ log' = Append(log, Call(Method(val.k), 0, 0, NoName, val, NoType, r))
    /\ stack' = Rest
    /\ ret' = r
    /\ UNCHANGED <<builders, refs>>

\* `let mut b = ser.serialize_xxx(len)?;`
OpenBuilder(op, len) ==
  \E r \in EncoderResults :
    LET id == Len(builders) + 1 IN
    /\ log' = Append(log, Call(op, IF r = "Ok" THEN id ELSE 0, len, NoName, Top.val, Top.ty, r))
    /\ IF r = "Ok"
       THEN /\ builders' = Append(builders, Builder(op, len))
            /\ stack' = Rest \o <<[Top EXCEPT !.pc = "loop", !.i = 0, !.b = id]>>
            /\ ret' = "none"
       ELSE /\ stack' = Rest
            /\ ret' = r
            /\ UNCHANGED builders
    /\ UNCHANGED refs

\* `b.serialize_element(..)?` / `b.serialize_entry(..)?` up to the point where
\* the encoder serializes the value it was handed (child).
ElementCall(op, name, val, ty, waitpc, child) ==
  \E r \in EncoderResults :
    /\ log' = Append(log, Call(op, Top.b, Top.i, name, val, ty, r))
    /\ builders' = [builders EXCEPT ![Top.b].n = @ + 1,
                                    ![Top.b].late = @ + (IF builders[Top.b].ended > 0 THEN 1 ELSE 0)]
    /\ IF r = "Ok"
       THEN /\ stack' = Rest \o <<[Top EXCEPT !.pc = waitpc], child>>
            /\ ret' = "none"
       ELSE /\ stack' = Rest
            /\ ret' = r
    /\ UNCHANGED refs

\* `b.end()` as the tail expression.
EndBuilder ==
  \E r \in EncoderResults :
    /\ log' = Append(log, Call("end", Top.b, 0, NoName, NoVal, NoType, r))
    /\ builders' = [builders EXCEPT ![Top.b].ended = @ + 1]
    /\ stack' = Rest
    /\ ret' = r
    /\ UNCHANGED refs

Ready == Running /\ ret = "none"
At(fn, pc) == Ready /\ Top.fn = fn /\ Top.pc = pc

-----------------------------------------------------------------------------
(* Schema-paired serialization: ValueWithType<'_, T>.                      *)

\* ValueWithType<AlgebraicValue>, the arm (_, &AlgebraicType::Ref(r)).
TAV_Ref ==
  /\ At("TAV", "start")
  /\ Top.ty.k = "Ref"
  /\ stack' = Rest \o <<[Top EXCEPT !.ty = typespace[Top.ty.r + 1]]>>
  /\ refs' = Min(refs + 1, RefCap)
  /\ UNCHANGED <<typespace, calls, cur, results, log, builders, ret>>

\* ValueWithType<AlgebraicValue>, the arms for a type that is not a Ref.
TAV_Match ==
  /\ At("TAV", "start")
  /\ Top.ty.k # "Ref"
  /\ IF Class(Top.val.k) = Class(Top.ty.k)
     THEN Forward(Frame(CASE Class(Top.val.k) = "Sum" -> "TSum"
                          [] Class(Top.val.k) = "Product" -> "TProduct"
                          [] OTHER -> "TBuiltin", Top.val, Top.ty))
     ELSE Panic
  /\ UNCHANGED <<typespace, calls, cur, results>>

\* ValueWithType<BuiltinValue> that emits a scalar without comparing its kind
\* with the declared scalar kind.
TBuiltin_AnyScalar ==
  /\ At("TBuiltin", "start")
  /\ IF Top.val.k \in ScalarKinds /\ Top.ty.k \in ScalarKinds
     THEN ScalarCall(Top.val)
     ELSE IF Top.val.k = "Array" /\ Top.ty.k = "Array"
     THEN Forward(Frame("TArray", Top.val, Top.ty))
     ELSE IF Top.val.k = "Map" /\ Top.ty.k = "Map"
     THEN Forward(Frame("TMap", Top.val, Top.ty))
     ELSE Panic
  /\ UNCHANGED <<typespace, calls, cur, results>>

\* ValueWithType<BuiltinValue>.
TBuiltin ==
  /\ At("TBuiltin", "start")
  /\ IF Top.val.k \in ScalarKinds /\ Top.ty.k = Top.val.k
     THEN ScalarCall(Top.val)
     ELSE IF Top.val.k = "Array" /\ Top.ty.k = "Array"
     THEN Forward(Frame("TArray", Top.val, Top.ty))
     ELSE IF Top.val.k = "Map" /\ Top.ty.k = "Map"
     THEN Forward(Frame("TMap", Top.val, Top.ty))
     ELSE Panic
  /\ UNCHANGED <<typespace, calls, cur, results>>

\* ValueWithType<SumValue> that takes the first variant whatever the tag.
TSum_FirstVariant ==
  /\ At("TSum", "start")
  /\ IF Top.val.tag >= Len(Top.ty.variants)
     THEN Panic
     ELSE LET var_ty == Top.ty.variants[1] IN
          \E r \in EncoderResults :
            /\ log' = Append(log, Call("serialize_variant", 0, Top.val.tag, var_ty.name,
                                       Top.val.value, var_ty.algebraic_type, r))
            /\ IF r = "Ok"
               THEN /\ stack' = Rest \o <<Frame("TAV", Top.val.value, var_ty.algebraic_type)>>
                    /\ ret' = "none"
               ELSE /\ stack' = Rest
                    /\ ret' = r
            /\ UNCHANGED <<builders, refs>>
  /\ UNCHANGED <<typespace, calls, cur, results>>

\* ValueWithType<SumValue>.
TSum ==
  /\ At("TSum", "start")
  /\ IF Top.val.tag >= Len(Top.ty.variants)
     THEN Panic
     ELSE LET var_ty == Top.ty.variants[Top.val.tag + 1] IN
          \E r \in EncoderResults :
            /\ log' = Append(log, Call("serialize_variant", 0, Top.val.tag, var_ty.name,
                                       Top.val.value, var_ty.algebraic_type, r))
            /\ IF r = "Ok"
               THEN /\ stack' = Rest \o <<Frame("TAV", Top.val.value, var_ty.algebraic_type)>>
                    /\ ret' = "none"
               ELSE /\ stack' = Rest
                    /\ ret' = r
            /\ UNCHANGED <<builders, refs>>
  /\ UNCHANGED <<typespace, calls, cur, results>>

\* The number of pairs of val.iter().zip(&self.ty().elements).
ZipLen(frame) == Min(Len(frame.val.elements), Len(frame.ty.elements))

\* ValueWithType<ProductValue> without the assert_eq! on the lengths.
TProduct_Open_NoAssert ==
  /\ At("TProduct", "start")
  /\ OpenBuilder("serialize_named_product", Len(Top.val.elements))
  /\ UNCHANGED <<typespace, calls, cur, results>>

\* ValueWithType<ProductValue>: assert_eq! and serialize_named_product.
TProduct_Open ==
  /\ At("TProduct", "start")
  /\ IF Len(Top.val.elements) # Len(Top.ty.elements)
     THEN Panic
     ELSE OpenBuilder("serialize_named_product", Len(Top.val.elements))
  /\ UNCHANGED <<typespace, calls, cur, results>>

\* ValueWithType<ProductValue> that walks the schema elements from the back.
TProduct_Element_Reversed ==
  /\ At("TProduct", "loop")
  /\ Top.i < ZipLen(Top)
  /\ LET val == Top.val.elements[Top.i + 1]
         el_ty == Top.ty.elements[Len(Top.ty.elements) - Top.i]
     IN ElementCall("serialize_element", el_ty.name, val, el_ty.algebraic_type, "wait",
                    Frame("TAV", val, el_ty.algebraic_type))
  /\ UNCHANGED <<typespace, calls, cur, results>>

\* ValueWithType<ProductValue>: one turn of the loop.
TProduct_Element ==
  /\ At("TProduct", "loop")
  /\ Top.i < ZipLen(Top)
  /\ LET val == Top.val.elements[Top.i + 1]
         el_ty == Top.ty.elements[Top.i + 1]
     IN ElementCall("serialize_element", el_ty.name, val, el_ty.algebraic_type, "wait",
                    Frame("TAV", val, el_ty.algebraic_type))
  /\ UNCHANGED <<typespace, calls, cur, results>>

\* ValueWithType<ProductValue>: prod.end().
TProduct_End ==
  /\ At("TProduct", "loop")
  /\ Top.i >= ZipLen(Top)
  /\ EndBuilder
  /\ UNCHANGED <<typespace, calls, cur, results>>

\* An element loop that drops the error of an element and goes on.
Resume_Swallow ==
  /\ Running
  /\ ret # "none"
  /\ Top.pc = "wait"
  /\ stack' = Rest \o <<[Top EXCEPT !.pc = "loop", !.i = @ + 1]>>
  /\ ret' = "none"
  /\ UNCHANGED <<typespace, calls, cur, results, log, builders, refs>>

\* The `?` after an element or entry call whose value has been serialized.
Resume ==
  /\ Running
  /\ ret # "none"
  /\ Top.pc = "wait"
  /\ IF ret = "Ok"
     THEN /\ stack' = Rest \o <<[Top EXCEPT !.pc = "loop", !.i = @ + 1]>>
          /\ ret' = "none"
     ELSE /\ stack' = Rest
          /\ UNCHANGED ret
  /\ UNCHANGED <<typespace, calls, cur, results, log, builders, refs>>

\* ValueWithType<ArrayValue>: the arms whose value kind and declared element
\* kind agree, and the final panic arm.
TArray ==
  /\ At("TArray", "start")
  /\ ~(Top.val.elems = <<>> /\ Top.val.ek # Top.ty.elem_ty.k)
  /\ IF Top.val.ek = Top.ty.elem_ty.k
     THEN IF Top.val.ek \in ScalarKinds
          THEN Forward(Frame("USlice", Top.val, NoType))
          ELSE Forward(Frame("TVec", Top.val, Top.ty.elem_ty))
     ELSE Panic
  /\ UNCHANGED <<typespace, calls, cur, results>>

\* ValueWithType<ArrayValue> without the arm for an empty array.
TArray_Empty_Panics ==
  /\ At("TArray", "start")
  /\ Top.val.elems = <<>>
  /\ Top.val.ek # Top.ty.elem_ty.k
  /\ Panic
  /\ UNCHANGED <<typespace, calls, cur, results>>

\* ValueWithType<ArrayValue>: the arm (val, _) if val.is_empty().
TArray_Empty ==
  /\ At("TArray", "start")
  /\ Top.val.elems = <<>>
  /\ Top.val.ek # Top.ty.elem_ty.k
  /\ OpenBuilder("serialize_array", 0)
  /\ UNCHANGED <<typespace, calls, cur, results>>

\* ValueWithType<ArrayValue>: `.end()` of the empty arm.
TArray_EmptyEnd ==
  /\ At("TArray", "loop")
  /\ EndBuilder
  /\ UNCHANGED <<typespace, calls, cur, results>>

\* The ValueWithType implementation that serializes an element of a Vec<T>.
TypedFn(ek) ==
  CASE ek = "Sum" -> "TSum"
    [] ek = "Product" -> "TProduct"
    [] ek = "Array" -> "TArray"
    [] ek = "Map" -> "TMap"

\* ValueWithType<Vec<T>>: serialize_array(len).
TVec_Open ==
  /\ At("TVec", "start")
  /\ OpenBuilder("serialize_array", Len(Top.val.elems))
  /\ UNCHANGED <<typespace, calls, cur, results>>

\* ValueWithType<Vec<T>>: one turn of the loop.
TVec_Element ==
  /\ At("TVec", "loop")
  /\ Top.i < Len(Top.val.elems)
  /\ LET val == Top.val.elems[Top.i + 1]
     IN ElementCall("serialize_element", NoName, val, Top.ty, "wait",
                    Frame(TypedFn(Top.val.ek), val, Top.ty))
  /\ UNCHANGED <<typespace, calls, cur, results>>

\* ValueWithType<Vec<T>>: vec.end().
TVec_End ==
  /\ At("TVec", "loop")
  /\ Top.i >= Len(Top.val.elems)
  /\ EndBuilder
  /\ UNCHANGED <<typespace, calls, cur, results>>

EntryV(key, val) == [k |-> "Entry", key |-> key, val |-> val]
EntryT(key_ty, ty) == [k |-> "Entry", key_ty |-> key_ty, ty |-> ty]

\* ValueWithType<MapValue>: serialize_map(len).
TMap_Open ==
  /\ At("TMap", "start")
  /\ OpenBuilder("serialize_map", Len(Top.val.entries))
  /\ UNCHANGED <<typespace, calls, cur, results>>

\* ValueWithType<MapValue> that visits the entries from the greatest key down.
TMap_Entry_Reversed ==
  /\ At("TMap", "loop")
  /\ Top.i < Len(Top.val.entries)
  /\ LET e == Top.val.entries[Len(Top.val.entries) - Top.i]
     IN ElementCall("serialize_entry", NoName, EntryV(e.key, e.val),
                    EntryT(Top.ty.key_ty, Top.ty.ty), "key",
                    Frame("TAV", e.key, Top.ty.key_ty))
  /\ UNCHANGED <<typespace, calls, cur, results>>

\* ValueWithType<MapValue>: one turn of the loop.
TMap_Entry ==
  /\ At("TMap", "loop")
  /\ Top.i < Len(Top.val.entries)
  /\ LET e == Top.val.entries[Top.i + 1]
     IN ElementCall("serialize_entry", NoName, EntryV(e.key, e.val),
                    EntryT(Top.ty.key_ty, Top.ty.ty), "key",
                    Frame("TAV", e.key, Top.ty.key_ty))
  /\ UNCHANGED <<typespace, calls, cur, results>>

\* ValueWithType<MapValue>: map.end().
TMap_End ==
  /\ At("TMap", "loop")
  /\ Top.i >= Len(Top.val.entries)
  /\ EndBuilder
  /\ UNCHANGED <<typespace, calls, cur, results>>

\* Inside serialize_entry: the key has been serialized, the value is next.
EntryValue ==
  /\ Running
  /\ ret # "none"
  /\ Top.pc = "key"
  /\ IF ret = "Ok"
     THEN LET e == Top.val.entries[Top.i + 1]
              child == IF Top.fn = "TMap" THEN Frame("TAV", e.val, Top.ty.ty)
                       ELSE Frame("UAV", e.val, NoType)
          IN /\ stack' = Rest \o <<[Top EXCEPT !.pc = "wait"], child>>
             /\ ret' = "none"
     ELSE /\ stack' = Rest
          /\ UNCHANGED ret
  /\ UNCHANGED <<typespace, calls, cur, results, log, builders, refs>>

-----------------------------------------------------------------------------
(* Untyped serialization.                                                  *)

\* ().
UUnit_Open ==
  /\ At("UUnit", "start")
  /\ OpenBuilder("serialize_seq_product", 0)
  /\ UNCHANGED <<typespace, calls, cur, results>>

UUnit_End ==
  /\ At("UUnit", "loop")
  /\ EndBuilder
  /\ UNCHANGED <<typespace, calls, cur, results>>

\* AlgebraicValue.
UAV ==
  /\ At("UAV", "start")
  /\ Forward(Frame(CASE Class(Top.val.k) = "Sum" -> "USum"
                     [] Class(Top.val.k) = "Product" -> "UProduct"
                     [] OTHER -> "UBuiltin", Top.val, NoType))
  /\ UNCHANGED <<typespace, calls, cur, results>>

\* BuiltinValue.
UBuiltin ==
  /\ At("UBuiltin", "start")
  /\ IF Top.val.k \in ScalarKinds
     THEN ScalarCall(Top.val)
     ELSE IF Top.val.k = "Array"
     THEN Forward(Frame("UArray", Top.val, NoType))
     ELSE Forward(Frame("UMap", Top.val, NoType))
  /\ UNCHANGED <<typespace, calls, cur, results>>

\* SumValue.
USum ==
  /\ At("USum", "start")
  /\ \E r \in EncoderResults :
       /\ log' = Append(log, Call("serialize_variant", 0, Top.val.tag, NoName,
                                  Top.val.value, NoType, r))
       /\ IF r = "Ok"
          THEN /\ stack' = Rest \o <<Frame("UAV", Top.val.value, NoType)>>
               /\ ret' = "none"
          ELSE /\ stack' = Rest
               /\ ret' = r
       /\ UNCHANGED <<builders, refs>>
  /\ UNCHANGED <<typespace, calls, cur, results>>

\* ProductValue: serialize_seq_product(len).
UProduct_Open ==
  /\ At("UProduct", "start")
  /\ OpenBuilder("serialize_seq_product", Len(Top.val.elements))
  /\ UNCHANGED <<typespace, calls, cur, results>>

\* ProductValue: one turn of the loop.
UProduct_Element ==
  /\ At("UProduct", "loop")
  /\ Top.i < Len(Top.val.elements)
  /\ LET val == Top.val.elements[Top.i + 1]
     IN ElementCall("serialize_element", NoName, val, NoType, "wait", Frame("UAV", val, NoType))
  /\ UNCHANGED <<typespace, calls, cur, results>>

\* ProductValue: tup.end().
UProduct_End ==
  /\ At("UProduct", "loop")
  /\ Top.i >= Len(Top.val.elements)
  /\ EndBuilder
  /\ UNCHANGED <<typespace, calls, cur, results>>

\* ArrayValue, then Vec<T> and [T]: down to T::__serialize_array.
UArray ==
  /\ At("UArray", "start")
  /\ Forward(Frame("USlice", Top.val, NoType))
  /\ UNCHANGED <<typespace, calls, cur, results>>

\* u8 without its own __serialize_array: the provided one, element by element.
USlice_Bytes_PerElement ==
  /\ At("USlice", "start")
  /\ Top.val.ek = "U8"
  /\ OpenBuilder("serialize_array", Len(Top.val.elems))
  /\ UNCHANGED <<typespace, calls, cur, results>>

\* u8::__serialize_array.
USlice_Bytes ==
  /\ At("USlice", "start")
  /\ Top.val.ek = "U8"
  /\ \E r \in EncoderResults :
       /\ log' = Append(log, Call("serialize_bytes", 0, Len(Top.val.elems), NoName,
                                  Top.val, NoType, r))
       /\ stack' = Rest
       /\ ret' = r
       /\ UNCHANGED <<builders, refs>>
  /\ UNCHANGED <<typespace, calls, cur, results>>

\* The Serialize implementation of an element of a [T].
UntypedFn(ek) ==
  CASE ek = "Sum" -> "USum"
    [] ek = "Product" -> "UProduct"
    [] ek = "Array" -> "UArray"
    [] ek = "Map" -> "UMap"
    [] OTHER -> "UPrim"

\* The provided __serialize_array of every T but u8: serialize_array(len).
USlice_Open ==
  /\ At("USlice", "start")
  /\ Top.val.ek # "U8"
  /\ OpenBuilder("serialize_array", Len(Top.val.elems))
  /\ UNCHANGED <<typespace, calls, cur, results>>

USlice_Element ==
  /\ At("USlice", "loop")
  /\ Top.i < Len(Top.val.elems)
  /\ LET val == Top.val.elems[Top.i + 1]
     IN ElementCall("serialize_element", NoName, val, NoType, "wait",
                    Frame(UntypedFn(Top.val.ek), val, NoType))
  /\ UNCHANGED <<typespace, calls, cur, results>>

USlice_End ==
  /\ At("USlice", "loop")
  /\ Top.i >= Len(Top.val.elems)
  /\ EndBuilder
  /\ UNCHANGED <<typespace, calls, cur, results>>

\* bool, u16 .. f64, str, and the F32 / F64 wrappers.
UPrim ==
  /\ At("UPrim", "start")
  /\ ScalarCall(Top.val)
  /\ UNCHANGED <<typespace, calls, cur, results>>

\* BTreeMap<K, V>: serialize_map(len).
UMap_Open ==
  /\ At("UMap", "start")
  /\ OpenBuilder("serialize_map", Len(Top.val.entries))
  /\ UNCHANGED <<typespace, calls, cur, results>>

\* BTreeMap<K, V>: one turn of the loop.
UMap_Entry ==
  /\ At("UMap", "loop")
  /\ Top.i < Len(Top.val.entries)
  /\ LET e == Top.val.entries[Top.i + 1]
     IN ElementCall("serialize_entry", NoName, EntryV(e.key, e.val), NoType, "key",
                    Frame("UAV", e.key, NoType))
  /\ UNCHANGED <<typespace, calls, cur, results>>

\* BTreeMap<K, V>: map.end().
UMap_End ==
  /\ At("UMap", "loop")
  /\ Top.i >= Len(Top.val.entries)
  /\ EndBuilder
  /\ UNCHANGED <<typespace, calls, cur, results>>

-----------------------------------------------------------------------------
(* The caller.                                                             *)

Typed(val, ty) == [mode |-> "typed", val |-> val, ty |-> ty, ins |-> <<>>]
Untyped(val) == [mode |-> "untyped", val |-> val, ty |-> NoType, ins |-> <<>>]

\* The caller hands the next value (and type) to serialize.
Start ==
  /\ stack = <<>>
  /\ ret = "none"
  /\ cur <= Len(calls)
  /\ LET c == calls[cur]
     IN stack' = <<IF c.mode = "typed" THEN Frame("TAV", c.val, c.ty)
                   ELSE IF c.val.k = "Unit" THEN Frame("UUnit", c.val, NoType)
                   ELSE Frame("UAV", c.val, NoType)>>
  /\ UNCHANGED <<typespace, calls, cur, results, log, builders, refs, ret>>

Result(l, o, b, r) == [log |-> l, out |-> o, builders |-> b, refs |-> r]

\* The call has returned (or unwound): the caller keeps what it saw.
Finish ==
  /\ stack = <<>>
  /\ ret # "none"
  /\ results' = Append(results, Result(log, ret, builders, refs))
  /\ cur' = cur + 1
  /\ log' = <<>>
  /\ builders' = <<>>
  /\ refs' = 0
  /\ ret' = "none"
  /\ UNCHANGED <<typespace, calls, stack>>

-----------------------------------------------------------------------------
(* The typespace, values and types the calls are drawn from.               *)

SeqsOf(S, lo, hi) == UNION {[1..m -> S] : m \in lo..hi}

U8T == ScalarT("U8")
BoolT == ScalarT("Bool")
UnitT == ProductT(<<>>)

\* A record with an optional `next` link back to itself.
RecordRef == 4
OptionNext == SumT(<<Elem("some", RefT(RecordRef)), Elem("none", UnitT)>>)
RecordT == ProductT(<<Elem("value", U8T), Elem("next", OptionNext)>>)

\* The arena: index 0 a scalar, 1 a Ref to it, 2 and 3 Refs to each other,
\* 4 the self-referential record.
Arena == <<U8T, RefT(0), RefT(3), RefT(2), RecordT>>

RECURSIVE ChainV(_)
ChainV(n) ==
  ProductV(<<Scalar("U8", n % (MaxPayload + 1)),
             IF n <= 1 THEN SumV(1, ProductV(<<>>)) ELSE SumV(0, ChainV(n - 1))>>)

Payloads == 0..MaxPayload
InKinds == {"U8", "Bool"}
FieldNames == <<"a", "b", "c", "d">>

V0 == {Scalar(k, p) : k \in InKinds, p \in Payloads}
VSum == {SumV(t, v) : t \in 0..MaxLen, v \in V0}
VProduct == {ProductV(s) : s \in SeqsOf(V0, 0, MaxLen)}
VArrayOf(k) ==
  {ArrayV(k, [i \in DOMAIN s |-> Scalar(k, s[i])]) : s \in SeqsOf(Payloads, 0, MaxLen)}
VEmptyArray == {ArrayV(k, <<>>) : k \in {"Sum", "Product", "Array", "Map"}}
Insertions == SeqsOf([key : {Scalar("U8", p) : p \in Payloads} \cup {Scalar("Bool", 0)},
                      val : {Scalar("Bool", 1), Scalar("U8", 0)}], 0, MaxLen)
VMap == {MapV(FromInsertions(ins)) : ins \in Insertions}
V1 == V0 \cup VSum \cup VProduct \cup VArrayOf("U8") \cup VArrayOf("Bool")
         \cup VEmptyArray \cup VMap

\* Values one level deeper.
SumElems == {SumV(0, Scalar("U8", 0)), SumV(1, Scalar("Bool", 1))}
ProductElems == {ProductV(<<>>), ProductV(<<Scalar("U8", 1)>>)}
ArrayElems == {ArrayV("U8", <<>>), ArrayV("U8", <<Scalar("U8", 0), Scalar("U8", 1)>>),
               ArrayV("Bool", <<Scalar("Bool", 1)>>)}
MapElems == {MapV(<<>>), MapV(<<[key |-> Scalar("U8", 0), val |-> Scalar("Bool", 1)]>>)}
Mixed == {ProductV(<<Scalar("U8", 0)>>), SumV(1, Scalar("Bool", 0)),
          ArrayV("U8", <<Scalar("U8", 1)>>)}
V2 == {ArrayV("Sum", s) : s \in SeqsOf(SumElems, 1, MaxLen)}
        \cup {ArrayV("Product", s) : s \in SeqsOf(ProductElems, 1, MaxLen)}
        \cup {ArrayV("Array", s) : s \in SeqsOf(ArrayElems, 1, MaxLen)}
        \cup {ArrayV("Map", s) : s \in SeqsOf(MapElems, 1, MaxLen)}
        \cup {ProductV(s) : s \in SeqsOf(Mixed, 1, MaxLen)}
        \cup {SumV(t, v) : t \in 0..1, v \in Mixed}
        \cup {MapV(<<[key |-> Scalar("U8", 1), val |-> v]>>) : v \in Mixed}

Values == V1 \cup V2

\* Element lists with every element named, or with the first name absent.
Named(tys) == [i \in DOMAIN tys |-> Elem(FieldNames[i], tys[i])]
HeadUnnamed(tys) == [i \in DOMAIN tys |-> Elem(IF i = 1 THEN NoName ELSE FieldNames[i], tys[i])]

T0 == {U8T, BoolT, RefT(1)}
TRoot == T0 \cup {RefT(0), RefT(2)}
SumTypes == {SumT(Named(s)) : s \in SeqsOf(T0, 1, MaxLen)}
          \cup {SumT(HeadUnnamed(s)) : s \in SeqsOf(T0, 1, MaxLen)}
ProductTypes == {ProductT(Named(s)) : s \in SeqsOf(T0, 0, MaxLen)}
              \cup {ProductT(HeadUnnamed(s)) : s \in SeqsOf(T0, 1, MaxLen)}
ArrayTypes == {ArrayT(t) : t \in TRoot}
MapTypes == {MapT(kt, vt) : kt \in T0, vt \in T0}
T1 == TRoot \cup SumTypes \cup ProductTypes \cup ArrayTypes \cup MapTypes

SumOfScalars == SumT(<<Elem("some", U8T), Elem("none", BoolT)>>)
TMixed == {ProductT(<<Elem("x", U8T)>>), SumOfScalars, ArrayT(U8T), RefT(1)}
T2 == {ArrayT(t) : t \in {SumOfScalars, UnitT, ProductT(<<Elem("x", U8T)>>), ArrayT(U8T),
                          ArrayT(BoolT), MapT(U8T, BoolT), RefT(RecordRef)}}
        \cup {ProductT(Named(s)) : s \in SeqsOf(TMixed, 1, MaxLen)}
        \cup {SumT(HeadUnnamed(s)) : s \in SeqsOf(TMixed, 1, MaxLen)}
        \cup {MapT(U8T, t) : t \in TMixed}

Types == T1 \cup T2

\* One schema-paired call, or one untyped call.
Single ==
  {<<Typed(v, t)>> : v \in Values, t \in Types}
    \cup {<<Untyped(v)>> : v \in Values \cup {UnitV}}

\* A chain of K records against the record type, directly or through its Ref.
Chains ==
  {<<Typed(ChainV(n), t)>> : n \in 1..MaxChain, t \in {RecordT, RefT(RecordRef)}}

\* The same array against an element type Ref(r) and against typespace[r].
RefPairs ==
  {<<Typed(a, ArrayT(RefT(r))), Typed(a, ArrayT(Arena[r + 1]))>> :
     a \in VArrayOf("U8") \cup VArrayOf("Bool") \cup VEmptyArray
           \cup {ArrayV("Product", <<ChainV(1)>>)},
     r \in {0, 1, RecordRef}}

\* Two maps built from the same pairs inserted in two orders.
Permuted(ins) ==
  {p \in SeqsOf({ins[i] : i \in DOMAIN ins}, Len(ins), Len(ins)) :
     \A i \in DOMAIN ins : \E j \in DOMAIN p : p[j] = ins[i]}
DistinctKeys(ins) ==
  \A i, j \in DOMAIN ins : ins[i].key = ins[j].key => i = j
MapCall(mode, ins) ==
  [mode |-> mode, val |-> MapV(FromInsertions(ins)),
   ty |-> IF mode = "typed" THEN MapT(U8T, RefT(1)) ELSE NoType, ins |-> ins]
MapInsertions ==
  SeqsOf([key : {Scalar("U8", p) : p \in Payloads}, val : {Scalar("U8", 0), Scalar("U8", 1)}],
         0, MaxLen)
MapPairs ==
  UNION {{<<MapCall(m, ins), MapCall(m, p)>> : p \in Permuted(ins)} :
           m \in {"typed", "untyped"},
           ins \in {x \in MapInsertions : DistinctKeys(x)}}

Scenarios == Single \cup Chains \cup RefPairs \cup MapPairs

-----------------------------------------------------------------------------

Init ==
  /\ typespace = Arena
  /\ calls \in Scenarios
  /\ cur = 1
  /\ stack = <<>>
  /\ log = <<>>
  /\ builders = <<>>
  /\ refs = 0
  /\ ret = "none"
  /\ results = <<>>

Next ==
  \/ Start
  \/ Finish
  \/ TAV_Ref
  \/ TAV_Match
  \/ TBuiltin
  \/ TSum
  \/ TProduct_Open
  \/ TProduct_Element
  \/ TProduct_End
  \/ Resume
  \/ TArray
  \/ TArray_Empty
  \/ TArray_EmptyEnd
  \/ TVec_Open
  \/ TVec_Element
  \/ TVec_End
  \/ TMap_Open
  \/ TMap_Entry
  \/ TMap_End
  \/ EntryValue
  \/ UUnit_Open
  \/ UUnit_End
  \/ UAV
  \/ UBuiltin
  \/ USum
  \/ UProduct_Open
  \/ UProduct_Element
  \/ UProduct_End
  \/ UArray
  \/ USlice_Bytes
  \/ USlice_Open
  \/ USlice_Element
  \/ USlice_End
  \/ UPrim
  \/ UMap_Open
  \/ UMap_Entry
  \/ UMap_End

Spec == Init /\ [][Next]_vars

\* The program is a sequential computation: it takes its next step.
FairSpec == Spec /\ WF_vars(Next)

-----------------------------------------------------------------------------
(* Vocabulary of the properties.                                           *)

Returned == DOMAIN results
Last(l) == l[Len(l)]

\* No Protocol call of the log returned an error.
CleanLog(l) == \A j \in DOMAIN l : l[j].res = "Ok"

\* The calls made on one builder, the call that opened it included.
OnBuilder(l, id) == SelectSeq(l, LAMBDA e : e.b = id)
CallsOf(l, op) == SelectSeq(l, LAMBDA e : e.op = op)

LeafOps == {Method(k) : k \in ScalarKinds} \cup {"serialize_bytes"}

\* What the encoder is told by a call, without the schema the model keeps
\* beside it.
Wire(l) ==
  [j \in DOMAIN l |->
     [op |-> l[j].op, b |-> l[j].b, n |-> l[j].n, name |-> l[j].name, res |-> l[j].res,
      val |-> IF l[j].op \in LeafOps THEN l[j].val ELSE NoVal]]

\* Follow Refs through the typespace, at most once per entry of the typespace.
RECURSIVE ResolveN(_, _)
ResolveN(ty, fuel) ==
  IF ty.k = "Ref" /\ fuel > 0 THEN ResolveN(typespace[ty.r + 1], fuel - 1) ELSE ty
Resolve(ty) == ResolveN(ty, Len(typespace))

\* The value agrees with the type at every node.
RECURSIVE Agrees(_, _)
Agrees(v, t) ==
  LET ty == Resolve(t) IN
  CASE ty.k = "Ref" -> FALSE
    [] ty.k # "Ref" /\ Class(v.k) # Class(ty.k) -> FALSE
    [] v.k = "Sum" /\ ty.k = "Sum" ->
         /\ v.tag < Len(ty.variants)
         /\ Agrees(v.value, ty.variants[v.tag + 1].algebraic_type)
    [] v.k = "Product" /\ ty.k = "Product" ->
         /\ Len(v.elements) = Len(ty.elements)
         /\ \A j \in DOMAIN v.elements : Agrees(v.elements[j], ty.elements[j].algebraic_type)
    [] v.k = "Array" /\ ty.k = "Array" ->
         \/ v.elems = <<>>
         \/ /\ v.ek = ty.elem_ty.k
            /\ \A j \in DOMAIN v.elems : Agrees(v.elems[j], ty.elem_ty)
    [] v.k = "Map" /\ ty.k = "Map" ->
         \A j \in DOMAIN v.entries :
           Agrees(v.entries[j].key, ty.key_ty) /\ Agrees(v.entries[j].val, ty.ty)
    [] OTHER -> v.k = ty.k

Max(a, b) == IF a > b THEN a ELSE b

RECURSIVE MaxDepth(_, _)
RECURSIVE Depth(_)
\* The nesting depth of a value.
Depth(v) ==
  CASE v.k = "Sum" -> 1 + Depth(v.value)
    [] v.k = "Product" -> 1 + MaxDepth(v.elements, 1)
    [] v.k = "Array" -> 1 + MaxDepth(v.elems, 1)
    [] v.k = "Map" -> 1 + Max(MaxDepth([j \in DOMAIN v.entries |-> v.entries[j].key], 1),
                              MaxDepth([j \in DOMAIN v.entries |-> v.entries[j].val], 1))
    [] OTHER -> 1
MaxDepth(s, j) ==
  IF j > Len(s) THEN 0 ELSE Max(Depth(s[j]), MaxDepth(s, j + 1))

-----------------------------------------------------------------------------
(* C1 *)

\* C1: every schema-paired call returns, whatever the typespace: the loop
\* that replaces Ref(r) by typespace[r] reaches a type that is not a Ref, so
\* every call the caller makes comes back and the caller runs out of calls.
C1_EveryCallReturns == <>(cur > Len(calls))

-----------------------------------------------------------------------------
(* C2 *)

\* The two calls of a scenario serialize one array against an element type
\* Ref(r) and against the element type typespace[r].
SameArrayBothWays(r) ==
  /\ Len(calls) = 2
  /\ calls[1].mode = "typed"
  /\ calls[2].mode = "typed"
  /\ calls[1].val.k = "Array"
  /\ calls[2].val = calls[1].val
  /\ calls[1].ty = ArrayT(RefT(r))
  /\ calls[2].ty = ArrayT(typespace[r + 1])

\* C2: an array serialized against the element type Ref(r) gives the encoder
\* the same calls, and ends the same way, as against the element type
\* typespace[r] (the encoder failing in neither call).
C2_ArrayRefResolved ==
  \A r \in 0..(Len(typespace) - 1) :
    (/\ SameArrayBothWays(r)
     /\ Len(results) = 2
     /\ CleanLog(results[1].log)
     /\ CleanLog(results[2].log))
    => /\ Wire(results[1].log) = Wire(results[2].log)
       /\ results[1].out = results[2].out

-----------------------------------------------------------------------------
(* C3 *)

\* C3: a schema-paired call during which the encoder never failed, on a value
\* that disagrees with its type at some node, ends in a panic: it returns
\* neither a success value nor an encoder error.
C3_MismatchPanics ==
  \A c \in Returned :
    (/\ calls[c].mode = "typed"
     /\ CleanLog(results[c].log)
     /\ ~Agrees(calls[c].val, calls[c].ty))
    => results[c].out = "Panic"

\* A product one element short of its type, met below the root, has panicked.
C3_Witness ==
  \E c \in Returned :
    /\ calls[c].mode = "typed"
    /\ calls[c].val.k = "Array"
    /\ calls[c].val.ek = "Product"
    /\ calls[c].ty.k = "Array"
    /\ calls[c].ty.elem_ty.k = "Product"
    /\ \E j \in DOMAIN calls[c].val.elems :
         Len(calls[c].val.elems[j].elements) < Len(calls[c].ty.elem_ty.elements)
    /\ results[c].log # <<>>
    /\ CleanLog(results[c].log)
    /\ results[c].out = "Panic"

-----------------------------------------------------------------------------
(* C4 *)

\* The calls on builder id are: the opening serialize_named_product(N) for a
\* product value of N elements paired with a product type of N elements, one
\* serialize_element per element in the value's order, each with the name and
\* the type of the schema element at the same position, then end().
NamedProductFrame(l, id) ==
  LET s == OnBuilder(l, id)
      val == s[1].val
      ty == s[1].ty
      N == Len(val.elements)
  IN /\ s[1].op = "serialize_named_product"
     /\ val.k = "Product"
     /\ ty.k = "Product"
     /\ Len(ty.elements) = N
     /\ s[1].n = N
     /\ Len(s) = N + 2
     /\ \A j \in 1..N :
          s[j + 1] = Call("serialize_element", id, j - 1, ty.elements[j].name,
                          val.elements[j], ty.elements[j].algebraic_type, "Ok")
     /\ s[N + 2].op = "end"

\* C4: in a schema-paired call that succeeded, a product value of N elements
\* paired with a product type of N elements opens a named-product builder of
\* length N, and every named-product builder receives exactly its N elements
\* in the value's order, each with its schema name (or none) and schema type,
\* and then end().
C4_NamedProduct ==
  \A c \in Returned :
    (calls[c].mode = "typed" /\ results[c].out = "Ok")
    => /\ (/\ calls[c].val.k = "Product"
           /\ Resolve(calls[c].ty).k = "Product"
           /\ Len(Resolve(calls[c].ty).elements) = Len(calls[c].val.elements))
          => /\ results[c].log[1].op = "serialize_named_product"
             /\ results[c].log[1].val = calls[c].val
             /\ results[c].log[1].ty = Resolve(calls[c].ty)
       /\ \A id \in DOMAIN results[c].builders :
            results[c].builders[id].kind = "serialize_named_product"
            => NamedProductFrame(results[c].log, id)

\* A product of two different elements against a type whose first element has
\* no name and whose second has one has been serialized.
C4_Witness ==
  \E c \in Returned :
    /\ calls[c].mode = "typed"
    /\ results[c].out = "Ok"
    /\ calls[c].val.k = "Product"
    /\ Len(calls[c].val.elements) = 2
    /\ calls[c].val.elements[1] # calls[c].val.elements[2]
    /\ calls[c].ty.k = "Product"
    /\ calls[c].ty.elements[1].name = NoName
    /\ calls[c].ty.elements[2].name # NoName
    /\ Len(CallsOf(results[c].log, "serialize_element")) = 2

-----------------------------------------------------------------------------
(* C5 *)

ElementOps == {"serialize_element", "serialize_entry"} \cup {Method(k) : k \in ScalarKinds}

\* C5: an array value without elements, of any variant, paired with an array
\* type of any declared element type, serializes successfully when the
\* encoder does not fail, and no element call and no scalar call is made.
C5_EmptyArray ==
  \A c \in Returned :
    (/\ calls[c].mode = "typed"
     /\ calls[c].val.k = "Array"
     /\ calls[c].val.elems = <<>>
     /\ Resolve(calls[c].ty).k = "Array"
     /\ CleanLog(results[c].log))
    => /\ results[c].out = "Ok"
       /\ \A j \in DOMAIN results[c].log : results[c].log[j].op \notin ElementOps

\* An empty array of sums has been serialized against an array of Ref.
C5_Witness ==
  \E c \in Returned :
    /\ calls[c].mode = "typed"
    /\ calls[c].val = ArrayV("Sum", <<>>)
    /\ calls[c].ty.k = "Array"
    /\ calls[c].ty.elem_ty.k = "Ref"
    /\ results[c].out = "Ok"

-----------------------------------------------------------------------------
(* C6 *)

IsBytes(v) == v.k = "Array" /\ v.ek = "U8"

\* The whole log is one serialize_bytes call that carries the array.
OnlyBytes(l, v) ==
  /\ Len(l) = 1
  /\ l[1].op = "serialize_bytes"
  /\ l[1].val = v
  /\ l[1].n = Len(v.elems)

\* C6 as claimed: a u8 array that is serialized successfully, untyped or
\* against any declared element type, and of any length, reaches the encoder
\* as exactly one serialize_bytes call with all its bytes.
C6_BytesAlwaysBulk ==
  \A c \in Returned :
    (/\ IsBytes(calls[c].val)
     /\ results[c].out = "Ok")
    => OnlyBytes(results[c].log, calls[c].val)

\* The declared element type under which a u8 array takes the bulk path.
BulkCase(mode, v, ty) ==
  \/ mode = "untyped"
  \/ v.elems # <<>>
  \/ Resolve(ty).k = "Array" /\ Resolve(ty).elem_ty = U8T

\* C6 amended: a u8 array that is serialized successfully reaches the encoder
\* as exactly one serialize_bytes call with all its bytes, and as no
\* serialize_array and no serialize_u8 call, when the call is untyped, or the
\* array is not empty, or the declared element type is u8 itself; an empty u8
\* array against any other declared element type is serialize_array(0) and
\* end().  This holds at the root of a call and for every u8 array handed to
\* serialize_element or serialize_variant.
C6_BytesBulk ==
  \A c \in Returned :
    results[c].out = "Ok"
    => LET l == results[c].log IN
       /\ IsBytes(calls[c].val)
          => IF BulkCase(calls[c].mode, calls[c].val, calls[c].ty)
             THEN OnlyBytes(l, calls[c].val)
             ELSE /\ Len(l) = 2
                  /\ l[1].op = "serialize_array"
                  /\ l[1].n = 0
                  /\ l[2].op = "end"
       /\ \A j \in DOMAIN l :
            (/\ l[j].op \in {"serialize_element", "serialize_variant"}
             /\ IsBytes(l[j].val)
             /\ BulkCase(IF l[j].ty = NoType THEN "untyped" ELSE "typed", l[j].val, l[j].ty))
            => /\ j < Len(l)
               /\ l[j + 1].op = "serialize_bytes"
               /\ l[j + 1].val = l[j].val
               /\ (j + 1 < Len(l) => l[j + 2].op \notin {"serialize_u8", "serialize_bytes"})

\* A u8 array of two bytes has been serialized against the element type u8,
\* as the element of an array of arrays.
C6_Witness ==
  \E c \in Returned :
    /\ results[c].out = "Ok"
    /\ calls[c].mode = "typed"
    /\ \E j \in DOMAIN results[c].log :
         /\ results[c].log[j].op = "serialize_element"
         /\ IsBytes(results[c].log[j].val)
         /\ Len(results[c].log[j].val.elems) = 2
         /\ results[c].log[j].ty = ArrayT(U8T)

-----------------------------------------------------------------------------
(* C7 *)

\* No Protocol call follows one that returned an error.
StopsAtError(l) == \A j \in DOMAIN l : j < Len(l) => l[j].res = "Ok"

\* C7: once a Protocol call has returned an error the core makes no further
\* Protocol call, the serialize call returns exactly that error, and a
\* serialize call returns an error only if its last Protocol call returned it.
C7_ErrorsPropagate ==
  /\ StopsAtError(log)
  /\ \A c \in Returned :
       LET l == results[c].log IN
       /\ StopsAtError(l)
       /\ (l # <<>> /\ Last(l).res \in Errors) => results[c].out = Last(l).res
       /\ results[c].out \in Errors => (l # <<>> /\ Last(l).res = results[c].out)

\* The encoder has failed with E2 on the second element of a builder opened
\* inside an element of an outer builder; the call has returned E2 and neither
\* builder has been ended.
C7_Witness ==
  \E c \in Returned :
    LET l == results[c].log IN
    /\ results[c].out = "E2"
    /\ Len(results[c].builders) >= 2
    /\ Last(l).op \in {"serialize_element", "serialize_entry"}
    /\ Last(l).b = 2
    /\ Last(l).n = 1
    /\ results[c].builders[1].ended = 0
    /\ results[c].builders[2].ended = 0

-----------------------------------------------------------------------------
(* C8 *)

EntrySet(v) == {v.entries[j] : j \in DOMAIN v.entries}
KeySet(v) == {v.entries[j].key : j \in DOMAIN v.entries}
Range(s) == {s[j] : j \in DOMAIN s}

\* The log of a map: serialize_map(len) with len the number of keys, then one
\* serialize_entry per key in strictly ascending key order, then end().
MapFrame(l, v, ety) ==
  LET s == OnBuilder(l, 1)
      N == Cardinality(KeySet(v))
  IN /\ l[1].op = "serialize_map"
     /\ l[1].n = N
     /\ Len(s) = N + 2
     /\ \A j \in 1..N :
          /\ s[j + 1].op = "serialize_entry"
          /\ s[j + 1].ty = ety
          /\ [key |-> s[j + 1].val.key, val |-> s[j + 1].val.val] \in EntrySet(v)
     /\ \A j \in 1..N : \A h \in 1..N :
          j < h => KeyLess(s[j + 1].val.key, s[h + 1].val.key)
     /\ s[N + 2].op = "end"

\* C8: a map that is serialized successfully, untyped or schema-paired, is
\* serialize_map(len) with len its number of entries, then its entries one
\* per key in strictly ascending key order, every key paired with key_ty and
\* every value with ty in schema-paired mode; the entries are those the
\* caller inserted, whatever the order of insertion, and two maps with the
\* same entries give the encoder the same calls.
C8_MapOrder ==
  /\ \A c \in Returned :
       (calls[c].val.k = "Map" /\ results[c].out = "Ok")
       => /\ MapFrame(results[c].log, calls[c].val,
                      IF calls[c].mode = "typed"
                      THEN EntryT(Resolve(calls[c].ty).key_ty, Resolve(calls[c].ty).ty)
                      ELSE NoType)
          /\ calls[c].ins # <<>> => EntrySet(calls[c].val) = Range(calls[c].ins)
  /\ (/\ Len(results) = 2
      /\ calls[1].val.k = "Map"
      /\ calls[2].val.k = "Map"
      /\ calls[1].mode = calls[2].mode
      /\ Range(calls[1].ins) = Range(calls[2].ins)
      /\ results[1].out = "Ok"
      /\ results[2].out = "Ok")
     => Wire(results[1].log) = Wire(results[2].log)

\* Two maps of two entries, inserted in opposite orders, have been serialized
\* against a map type.
C8_Witness ==
  /\ Len(results) = 2
  /\ calls[1].mode = "typed"
  /\ Len(calls[1].ins) = 2
  /\ calls[1].ins # calls[2].ins
  /\ Range(calls[1].ins) = Range(calls[2].ins)
  /\ results[1].out = "Ok"
  /\ results[2].out = "Ok"
  /\ Len(CallsOf(results[2].log, "serialize_entry")) = 2

-----------------------------------------------------------------------------
(* C9 *)

RECURSIVE ChainLen(_)
\* The number of records of a chain value.
ChainLen(v) ==
  IF v.elements[2].tag = 1 THEN 1 ELSE 1 + ChainLen(v.elements[2].value)

IsChainCall(c) ==
  /\ c.mode = "typed"
  /\ c.ty \in {RecordT, RefT(RecordRef)}
  /\ \E n \in 1..MaxChain : c.val = ChainV(n)

\* The positions of the log at which a call satisfies P.
Positions(l, P(_)) == {j \in DOMAIN l : P(l[j])}
IsRecordOpen(e) == e.op = "serialize_named_product" /\ e.ty = RecordT
IsVariant(e) == e.op = "serialize_variant"

\* K record frames, each inside the one before it and linked to it by a
\* `some` variant, the last one closed by the `none` variant; builders are
\* ended innermost first.
ChainFrames(l, v) ==
  LET K == ChainLen(v)
      opens == SelectSeq(l, IsRecordOpen)
      links == SelectSeq(l, IsVariant)
      ends == CallsOf(l, "end")
  IN /\ Len(opens) = K
     /\ Len(links) = K
     /\ opens[1].val = v
     /\ \A j \in 1..K :
          /\ links[j].name = (IF j < K THEN "some" ELSE "none")
          /\ links[j].n = (IF j < K THEN 0 ELSE 1)
          /\ j < K => links[j].val = opens[j + 1].val
          /\ opens[j].val.elements[2].value = links[j].val
     /\ \A j \in Positions(l, IsRecordOpen) : \A h \in Positions(l, IsVariant) :
          Cardinality({x \in Positions(l, IsRecordOpen) : x <= j})
            <= Cardinality({x \in Positions(l, IsVariant) : x <= h})
          <=> j < h
     /\ \A j \in 1..Len(ends) : j < Len(ends) => ends[j].b > ends[j + 1].b

ChainReturned ==
  \A c \in Returned :
    (IsChainCall(calls[c]) /\ CleanLog(results[c].log))
    => /\ results[c].out = "Ok"
       /\ ChainFrames(results[c].log, calls[c].val)
       /\ results[c].refs < RefCap
       /\ results[c].refs <= Depth(calls[c].val)
       /\ results[c].refs <= ChainLen(calls[c].val)

\* A call on a chain has not returned yet.
ChainPending ==
  \E c \in DOMAIN calls : IsChainCall(calls[c]) /\ c \notin Returned

-----------------------------------------------------------------------------
(* C10 *)

BuilderOps ==
  {"serialize_array", "serialize_map", "serialize_seq_product", "serialize_named_product"}

\* The calls on builder id: the opening call with its len, exactly len element
\* or entry calls, then one end().
BuilderContract(l, bs, id) ==
  LET s == OnBuilder(l, id) IN
  /\ bs[id].n = bs[id].len
  /\ bs[id].ended = 1
  /\ bs[id].late = 0
  /\ Len(s) = bs[id].len + 2
  /\ s[1].op = bs[id].kind
  /\ s[1].op \in BuilderOps
  /\ s[1].n = bs[id].len
  /\ \A j \in 2..(Len(s) - 1) :
       /\ s[j].op = (IF s[1].op = "serialize_map" THEN "serialize_entry" ELSE "serialize_element")
       /\ s[j].n = j - 2
  /\ Last(s).op = "end"

\* C10: in a call that succeeded, every builder the core opened with len
\* received exactly len element (or entry) calls and then one end(), and
\* every serialize_xxx(len) call that succeeded opened one; the unit value is
\* serialize_seq_product(0) and end(); an empty array of a kind other than
\* the declared one is serialize_array(0) and end(); and a named-product
\* builder is never opened for a product whose length differs from its
\* type's.
C10_BuilderContract ==
  /\ \A j \in DOMAIN log :
       log[j].op = "serialize_named_product"
       => Len(log[j].val.elements) = Len(log[j].ty.elements)
  /\ \A c \in Returned :
       LET l == results[c].log IN
       /\ \A j \in DOMAIN l :
            l[j].op = "serialize_named_product"
            => Len(l[j].val.elements) = Len(l[j].ty.elements)
       /\ results[c].out = "Ok"
          => /\ \A id \in DOMAIN results[c].builders :
                  BuilderContract(l, results[c].builders, id)
             /\ Len(results[c].builders)
                  = Cardinality({j \in DOMAIN l : l[j].op \in BuilderOps})
             /\ \A j \in DOMAIN l : l[j].b \in 0..Len(results[c].builders)
             /\ calls[c].val = UnitV
                => /\ Len(l) = 2
                   /\ l[1].op = "serialize_seq_product"
                   /\ l[1].n = 0
                   /\ l[2].op = "end"
             /\ (/\ calls[c].mode = "typed"
                 /\ calls[c].val.k = "Array"
                 /\ calls[c].val.elems = <<>>
                 /\ Resolve(calls[c].ty).k = "Array"
                 /\ Resolve(calls[c].ty).elem_ty.k # calls[c].val.ek)
                => /\ Len(l) = 2
                   /\ l[1].op = "serialize_array"
                   /\ l[1].n = 0
                   /\ l[2].op = "end"

\* A call has succeeded after opening three builders, one of them of length
\* two and one of length zero.
C10_Witness ==
  \E c \in Returned :
    /\ results[c].out = "Ok"
    /\ Len(results[c].builders) >= 3
    /\ \E id \in DOMAIN results[c].builders : results[c].builders[id].len = 2
    /\ \E id \in DOMAIN results[c].builders : results[c].builders[id].len = 0

====
